---- MODULE Spec2Model ----
(***************************************************************************)
(* Model of neo/rawio/neuralynxrawio.py: gap detection and segmentation of *)
(* the NCS channel files (read_nsc_files), the open of a directory         *)
(* (_parse_header) and the random-access chunk read                        *)
(* (_get_analogsignal_chunk).                                              *)
(*                                                                         *)
(* Conventions.                                                            *)
(*  - Python indexes are 0-based, TLA+ sequences are 1-based: element i of *)
(*    a Python array is element i+1 of the sequence that models it.        *)
(*  - None is the empty tuple and a present value v is <<v>>.              *)
(*  - A record of a file is [timestamp, samples]; the 512 samples of one   *)
(*    record are the consecutive values samples, samples+1, ...; the files *)
(*    of Init give every sample of the directory a different value, so a   *)
(*    value read back identifies the channel, record and position it came  *)
(*    from.  The code never inspects a sample value.                       *)
(*  - Times are kept exact: [us |-> u, blocks |-> b] is the number         *)
(*    u/1e6 + b*BLOCK_SIZE/sampling_rate of seconds that the code holds    *)
(*    in a float.                                                          *)
(*  - np.diff on the uint64 timestamps wraps modulo 2^64; for timestamps   *)
(*    below 2^64 - good_delta the wrapped difference equals good_delta     *)
(*    exactly when the integer difference does, and the model computes the *)
(*    integer difference.                                                  *)
(***************************************************************************)
EXTENDS Integers, Sequences, FiniteSets, TLC

VARIABLES
    files,          \* the .ncs files of the directory, in os.listdir order
    sampling_rate,  \* the SamplingFrequency of the headers of the .ncs files
    self,           \* the attributes of the NeuralynxRawIO object
    exc,            \* the exception the last call raised, or "none" (inside a
                    \* call, the field exc of the object holds it)
    ret,            \* the buffer the last chunk read returned, or None
    call            \* the last call and its arguments

vars == <<files, sampling_rate, self, exc, ret, call>>

BLOCK_SIZE == 512

MICRO == 1000000

\* Largest number of records of a generated channel file, for the opens.
MaxRec == 3

\* Largest number of records of a generated channel file, for the chunk reads.
MaxChunkRec == 3

None == <<>>

Some(v) == <<v>>

-----------------------------------------------------------------------------
(* numpy / Python primitives *)

\* x[i] on an array of n elements is legal for -n <= i < n.
InRange(n, i) == (-n <= i) /\ (i < n)

\* x[i], negative indexes counting from the end.
At(x, i) == x[IF i < 0 THEN i + Len(x) + 1 ELSE i + 1]

\* The bound b of a slice of an array of n elements, as Python normalises it.
SliceBound(n, b) ==
    IF b < 0 THEN (IF b + n < 0 THEN 0 ELSE b + n)
    ELSE (IF b > n THEN n ELSE b)

\* x[a:b]
PySlice(x, a, b) ==
    LET lo == SliceBound(Len(x), a)
        hi == SliceBound(Len(x), b)
    IN  IF lo < hi THEN SubSeq(x, lo + 1, hi) ELSE <<>>

\* np.diff(ts)
diff(ts) == [k \in 1..(Len(ts) - 1) |-> ts[k + 1] - ts[k]]

\* np.nonzero(mask): the 0-based indexes of the TRUE entries, ascending.
RECURSIVE nonzero_from(_, _)
nonzero_from(mask, k) ==
    IF k > Len(mask) THEN <<>>
    ELSE (IF mask[k] THEN <<k - 1>> ELSE <<>>) \o nonzero_from(mask, k + 1)

nonzero(mask) == nonzero_from(mask, 1)

\* sub['samples'].flatten(): the payloads of the records, in record order.
flatten(sub) ==
    [n \in 1..(BLOCK_SIZE * Len(sub)) |->
        sub[((n - 1) \div BLOCK_SIZE) + 1].samples + ((n - 1) % BLOCK_SIZE)]

-----------------------------------------------------------------------------
(* read_nsc_files *)

\* good_delta = int(BLOCK_SIZE*1e6/self._sigs_sampling_rate)
good_delta(rate) == (BLOCK_SIZE * MICRO) \div rate

\* detect_gaps with a tolerance of one microsecond.
detect_gaps_tolerant(data0, rate) ==
    LET timestamps0 == [k \in 1..Len(data0) |-> data0[k].timestamp]
        deltas0     == diff(timestamps0)
    IN  nonzero([k \in 1..Len(deltas0) |->
                    deltas0[k] - good_delta(rate) \notin {-1, 0, 1}])

\* gap_indexes, = np.nonzero(np.diff(timestamps0) != good_delta)
detect_gaps(data0, rate) ==
    LET timestamps0 == [k \in 1..Len(data0) |-> data0[k].timestamp]
        deltas0     == diff(timestamps0)
    IN  nonzero([k \in 1..Len(deltas0) |-> deltas0[k] # good_delta(rate)])

\* gap_bounds = [0] + (gap_indexes+1).tolist() + [data0.size]
gap_bounds(gap_indexes, size) ==
    <<0>> \o [k \in 1..Len(gap_indexes) |-> gap_indexes[k] + 1] \o <<size>>

\* subdata that stops one record early, data[i0:i1-1].
subdata_short(disk, c, i0, i1) ==
    LET n  == Len(disk[c].data)
        lo == SliceBound(n, i0)
        hi == SliceBound(n, i1 - 1)
    IN  [file |-> c, start |-> lo, stop |-> IF hi < lo THEN lo ELSE hi]

\* The view data[i0:i1] of the records of file number c.
subdata(disk, c, i0, i1) ==
    LET n  == Len(disk[c].data)
        lo == SliceBound(n, i0)
        hi == SliceBound(n, i1)
    IN  [file |-> c, start |-> lo, stop |-> IF hi < lo THEN lo ELSE hi]

\* The records a view covers.
view_records(disk, v) == SubSeq(disk[v.file].data, v.start + 1, v.stop)

\* same_timestamp that compares the file with itself.
same_timestamp_self(data, data0, i) == At(data, i).timestamp = At(data, i).timestamp

\* data[i]['timestamp']==data0[i]['timestamp']
same_timestamp(data, data0, i) == At(data, i).timestamp = At(data0, i).timestamp

\* same_size that lets a file be longer than the first one.
same_size_atleast(data, data0) == Len(data) >= Len(data0)

\* data.size==data0.size
same_size(data, data0) == Len(data) = Len(data0)

\* t_start = subdata[0]['timestamp']/1e6
t_start_of(first) == [us |-> first.timestamp, blocks |-> 0]

\* t_stop_of without the duration of the last block.
t_stop_of_noblock(last) == [us |-> last.timestamp, blocks |-> 0]

\* t_stop = subdata[-1]['timestamp']/1e6 + BLOCK_SIZE/self._sigs_sampling_rate
t_stop_of(last) == [us |-> last.timestamp, blocks |-> 1]

\* The body of the loop over the segments, for file c and segment seg_index.
segment_step(st, disk, c, seg_index, bounds) ==
    LET data  == disk[c].data
        data0 == disk[1].data
        i0    == bounds[seg_index + 1]
        i1    == bounds[seg_index + 2]
        sub   == subdata(disk, c, i0, i1)
    IN  IF ~InRange(Len(data), i0) THEN [st EXCEPT !.exc = "IndexError"]
        ELSE IF ~same_timestamp(data, data0, i0)
        THEN [st EXCEPT !.exc = "AssertionError: NSC files do not have the same gaps"]
        ELSE IF ~InRange(Len(data), i1 - 1) THEN [st EXCEPT !.exc = "IndexError"]
        ELSE IF ~same_timestamp(data, data0, i1 - 1)
        THEN [st EXCEPT !.exc = "AssertionError: NSC files do not have the same gaps"]
        ELSE LET st1 == [st EXCEPT !._sigs_memmap[seg_index + 1] =
                                       (disk[c].chan_id :> sub) @@ @]
             IN  IF c # 1 THEN st1
                 ELSE IF sub.stop = sub.start
                 THEN [st1 EXCEPT !.exc = "IndexError"]
                 ELSE [st1 EXCEPT
                        !._sigs_t_start = Append(@, t_start_of(disk[c].data[sub.start + 1])),
                        !._sigs_t_stop = Append(@, t_stop_of(disk[c].data[sub.stop])),
                        !._sigs_length = Append(@, (sub.stop - sub.start) * BLOCK_SIZE)]

RECURSIVE segment_loop(_, _, _, _, _)
segment_loop(st, disk, c, seg_index, bounds) ==
    IF st.exc # "none" \/ seg_index >= st._nb_segment THEN st
    ELSE segment_loop(segment_step(st, disk, c, seg_index, bounds),
                      disk, c, seg_index + 1, bounds)

\* The loop over self.nsc_filenames.
RECURSIVE channel_loop(_, _, _, _)
channel_loop(st, disk, c, bounds) ==
    IF st.exc # "none" \/ c > Len(st.nsc_filenames) THEN st
    ELSE IF ~same_size(disk[c].data, disk[1].data)
    THEN [st EXCEPT !.exc = "AssertionError: NSC files do not have the same data length"]
    ELSE channel_loop(segment_loop(st, disk, c, 0, bounds), disk, c + 1, bounds)

\* gaps_in_use that reads the given indexes as segment bounds.
gaps_in_use_asbounds(data0, rate, gap_indexes) ==
    IF gap_indexes = None THEN detect_gaps(data0, rate)
    ELSE [k \in 1..Len(gap_indexes[1]) |-> gap_indexes[1][k] - 1]

\* The gap indexes read_nsc_files works with: detected on the first file
\* when gap_indexes is None, else the ones the caller gives.
gaps_in_use(data0, rate, gap_indexes) ==
    IF gap_indexes = None THEN detect_gaps(data0, rate) ELSE gap_indexes[1]

\* read_nsc_files(self, nsc_filenames, gap_indexes) on the object st; the
\* result is the object after the call, its field exc the exception raised.
read_nsc_files(st, disk, nsc_filenames, gap_indexes) ==
    IF Len(nsc_filenames) = 0
    THEN [st EXCEPT !._nb_segment = 1, !.attrs = @ \cup {"_nb_segment"}]
    ELSE LET data0  == disk[1].data
             gaps   == gaps_in_use(data0, st._sigs_sampling_rate[1], gap_indexes)
             bounds == gap_bounds(gaps, Len(data0))
             st1    == [st EXCEPT
                          !._nb_segment   = Len(bounds) - 1,
                          !._sigs_memmap  = [s \in 1..(Len(bounds) - 1) |-> <<>>],
                          !._sigs_t_start = <<>>,
                          !._sigs_t_stop  = <<>>,
                          !._sigs_length  = <<>>,
                          !.attrs = @ \cup {"_nb_segment", "_sigs_memmap",
                                            "_sigs_t_start", "_sigs_t_stop",
                                            "_sigs_length"}]
         IN  channel_loop(st1, disk, 1, bounds)

-----------------------------------------------------------------------------
(* _parse_header *)

\* _parse_header on the object st.
parse_header(st, disk, rate) ==
    LET st1 == [st EXCEPT
                  !.nsc_filenames = [c \in 1..Len(disk) |-> disk[c].chan_id],
                  !._sigs_sampling_rate = IF Len(disk) = 0 THEN None ELSE Some(rate),
                  !.attrs = @ \cup {"nsc_filenames", "_sigs_sampling_rate"}]
        st2 == read_nsc_files(st1, disk, st1.nsc_filenames, None)
    IN  IF st2.exc # "none" THEN st2
        ELSE IF "_sigs_t_start" \notin st2.attrs
        THEN [st2 EXCEPT !.exc = "AttributeError"]
        ELSE [st2 EXCEPT
                !.global_t_start = st2._sigs_t_start,
                !.global_t_stop  = st2._sigs_t_stop,
                !.header = [nb_block |-> 1,
                            nb_segment |-> <<st2._nb_segment>>,
                            signal_channels |-> [c \in 1..Len(disk) |-> disk[c].chan_id]],
                !.attrs = @ \cup {"global_t_start", "global_t_stop", "header"}]

-----------------------------------------------------------------------------
(* _get_analogsignal_chunk *)

\* sigs_chunk[:, i] = v: v fills a column of rows entries when it has rows
\* entries, or one entry (numpy broadcasts it); anything else raises.
CanAssign(v, rows) == Len(v) = rows \/ Len(v) = 1

Assigned(v, rows) == IF Len(v) = rows THEN v ELSE [j \in 1..rows |-> v[1]]

\* block_start = i_start//BLOCK_SIZE
block_start_of(i_start) == i_start \div BLOCK_SIZE

\* block_stop_of without the block that holds i_stop.
block_stop_of_short(i_stop) == i_stop \div BLOCK_SIZE

\* block_stop = i_stop//BLOCK_SIZE+1
block_stop_of(i_stop) == (i_stop \div BLOCK_SIZE) + 1

\* The entries flatten()[sl0:sl1] of channel chan_id of segment seg_index.
chunk_column(st, disk, seg_index, chan_id, block_start, block_stop, sl0, sl1) ==
    LET data == view_records(disk, st._sigs_memmap[seg_index + 1][chan_id])
        sub  == PySlice(data, block_start, block_stop)
    IN  PySlice(flatten(sub), sl0, sl1)

\* _get_analogsignal_chunk(block_index, seg_index, i_start, i_stop,
\* channel_indexes): [exc, ret], ret the buffer as its shape and its columns.
get_analogsignal_chunk(st, disk, seg_index, i_start, i_stop, channel_indexes) ==
    LET start == IF i_start = None THEN 0 ELSE i_start[1]
        stop  == IF i_stop = None THEN st._sigs_length[seg_index + 1] ELSE i_stop[1]
        block_start == block_start_of(start)
        block_stop  == block_stop_of(stop)
        sl0 == start % 512
        sl1 == sl0 + (stop - start)
        channel_ids == [k \in 1..Len(channel_indexes) |->
                           At(st.header.signal_channels, channel_indexes[k])]
        rows == stop - start
        cols == [k \in 1..Len(channel_indexes) |->
                    chunk_column(st, disk, seg_index, channel_ids[k],
                                 block_start, block_stop, sl0, sl1)]
    IN  IF rows < 0 THEN [exc |-> "ValueError", ret |-> None]
        ELSE IF \E k \in 1..Len(cols) : ~CanAssign(cols[k], rows)
        THEN [exc |-> "ValueError", ret |-> None]
        ELSE [exc |-> "none",
              ret |-> Some([shape   |-> <<rows, Len(channel_indexes)>>,
                            columns |-> [k \in 1..Len(cols) |-> Assigned(cols[k], rows)]])]

-----------------------------------------------------------------------------
(* The directory: the inputs of the model *)

Rates == {32000, 30000}

ChannelCounts == {0, 1, 2}

\* The channel ids of the headers, in listing order.
ChanIds == <<7, 3>>

\* The deltas between consecutive records of a generated file: the regular
\* one, one microsecond more, and a pause or an overlap of 500 microseconds.
Deltas(rate) == {good_delta(rate), good_delta(rate) + 1,
                 good_delta(rate) + 500, good_delta(rate) - 500}

\* The deltas of the files the chunk reads run on: regular, or a pause.
ChunkDeltas(rate) == {good_delta(rate), good_delta(rate) + 500}

RECURSIVE SumTo(_, _)
SumTo(d, k) == IF k = 0 THEN 0 ELSE d[k] + SumTo(d, k - 1)

\* The timestamp columns of up to maxrec records, from 0, with the deltas ds.
TimestampSeqs(ds, maxrec) ==
    {<<>>} \cup
    UNION {{[k \in 1..n |-> SumTo(d, k - 1)] : d \in [1..(n - 1) -> ds]}
           : n \in 1..maxrec}

\* The scenario of the specification: one pause after record 2, at 32000 Hz.
ScenarioTimestamps == <<0, 16000, 32000, 48500, 64500>>

\* File number c with timestamp column ts.
NcsFile(c, ts) ==
    [chan_id |-> ChanIds[c],
     data    |-> [r \in 1..Len(ts) |->
                     [timestamp |-> ts[r],
                      samples   |-> (c - 1) * 8192 + (r - 1) * BLOCK_SIZE]]]

NoCall == [op |-> "new", seg_index |-> 0, i_start |-> None, i_stop |-> None,
           channel_indexes |-> <<>>]

\* NeuralynxRawIO(dirname): no attribute of the reader is set yet.
NewObject ==
    [attrs |-> {}, exc |-> "none",
     nsc_filenames |-> <<>>, _sigs_sampling_rate |-> None,
     _nb_segment |-> 0, _sigs_memmap |-> <<>>,
     _sigs_t_start |-> <<>>, _sigs_t_stop |-> <<>>, _sigs_length |-> <<>>,
     global_t_start |-> <<>>, global_t_stop |-> <<>>,
     header |-> [nb_block |-> 0, nb_segment |-> <<>>, signal_channels |-> <<>>]]

\* The state after NeuralynxRawIO(dirname) on a directory whose channel
\* files have their timestamp columns in tsset.
Constructed(tsset) ==
    /\ \E n \in ChannelCounts :
          \E tss \in [1..n -> tsset] :
              files = [c \in 1..n |-> NcsFile(c, tss[c])]
    /\ self = NewObject
    /\ exc = "none"
    /\ ret = None
    /\ call = NoCall

Init ==
    /\ sampling_rate \in Rates
    /\ Constructed(TimestampSeqs(ChunkDeltas(sampling_rate), MaxChunkRec))

InitOpen ==
    /\ sampling_rate \in Rates
    /\ Constructed(TimestampSeqs(Deltas(sampling_rate), MaxRec)
                   \cup (IF sampling_rate = 32000 THEN {ScenarioTimestamps} ELSE {}))

-----------------------------------------------------------------------------
(* The calls *)

Opened == "header" \in self.attrs

\* The reader is opened once: _parse_header on the new object.
ParseHeader ==
    /\ call.op = "new"
    /\ LET st == parse_header(self, files, sampling_rate)
       IN  /\ self' = [st EXCEPT !.exc = "none"]
           /\ exc' = st.exc
    /\ ret' = None
    /\ call' = [NoCall EXCEPT !.op = "_parse_header"]
    /\ UNCHANGED <<files, sampling_rate>>

\* A caller that kept the gap indexes of the first file hands them back:
\* read_nsc_files(self.nsc_filenames, gap_indexes) on the opened reader.
ReadNscFilesCached ==
    /\ Opened
    /\ LET cached == detect_gaps(files[1].data, sampling_rate)
           st == read_nsc_files(self, files, self.nsc_filenames, Some(cached))
       IN  /\ self' = [st EXCEPT !.exc = "none"]
           /\ exc' = st.exc
    /\ ret' = None
    /\ call' = [NoCall EXCEPT !.op = "read_nsc_files"]
    /\ UNCHANGED <<files, sampling_rate>>

\* The sample indexes a caller asks for, around the block and segment limits.
StartArgs(length) == {None} \cup {Some(v) : v \in {-1, 511, 512, length - 1}}

StopArgs(length) == {None} \cup {Some(v) : v \in {0, 512, length - 1, length + 1}}

\* The channel selections: none, one channel, or two channels in either order.
ChannelArgs(n) ==
    {<<>>} \cup {<<a>> : a \in 0..(n - 1)}
           \cup {<<p[1], p[2]>> : p \in {q \in (0..(n - 1)) \X (0..(n - 1)) : q[1] # q[2]}}

\* GetAnalogsignalChunk that keeps the stop it used as the segment's length.
GetAnalogsignalChunkStoring ==
    /\ Opened
    /\ exc = "none"
    /\ ret = None
    /\ \E seg_index \in 0..(self.header.nb_segment[1] - 1) :
       \E i_start \in StartArgs(self._sigs_length[seg_index + 1]) :
       \E i_stop \in StopArgs(self._sigs_length[seg_index + 1]) :
       \E channel_indexes \in ChannelArgs(Len(self.header.signal_channels)) :
          LET r == get_analogsignal_chunk(self, files, seg_index, i_start, i_stop,
                                          channel_indexes)
          IN  /\ exc' = r.exc
              /\ ret' = r.ret
              /\ self' = [self EXCEPT !._sigs_length[seg_index + 1] =
                             IF i_stop = None THEN @ ELSE i_stop[1]]
              /\ call' = [op |-> "_get_analogsignal_chunk", seg_index |-> seg_index,
                          i_start |-> i_start, i_stop |-> i_stop,
                          channel_indexes |-> channel_indexes]
    /\ UNCHANGED <<files, sampling_rate>>

GetAnalogsignalChunk ==
    /\ Opened
    /\ exc = "none"
    /\ ret = None
    /\ \E seg_index \in 0..(self.header.nb_segment[1] - 1) :
       \E i_start \in StartArgs(self._sigs_length[seg_index + 1]) :
       \E i_stop \in StopArgs(self._sigs_length[seg_index + 1]) :
       \E channel_indexes \in ChannelArgs(Len(self.header.signal_channels)) :
          LET r == get_analogsignal_chunk(self, files, seg_index, i_start, i_stop,
                                          channel_indexes)
          IN  /\ exc' = r.exc
              /\ ret' = r.ret
              /\ call' = [op |-> "_get_analogsignal_chunk", seg_index |-> seg_index,
                          i_start |-> i_start, i_stop |-> i_stop,
                          channel_indexes |-> channel_indexes]
    /\ UNCHANGED <<files, sampling_rate, self>>

\* The caller takes the buffer, or handles the exception, of a chunk read.
Return ==
    /\ call.op = "_get_analogsignal_chunk"
    /\ exc' = "none"
    /\ ret' = None
    /\ call' = [NoCall EXCEPT !.op = "return"]
    /\ UNCHANGED <<files, sampling_rate, self>>

Next == ParseHeader \/ ReadNscFilesCached \/ GetAnalogsignalChunk \/ Return

Spec == Init /\ [][Next]_vars

\* The opens alone, over the larger set of directories.
NextOpen == ParseHeader \/ ReadNscFilesCached

SpecOpen == InitOpen /\ [][NextOpen]_vars

-----------------------------------------------------------------------------
(* Properties *)

\* The first file: the reference channel.
RefData == files[1].data

RefCount == Len(RefData)

\* The delta after record k (0-based) of file c.
Delta(c, k) == files[c].data[k + 2].timestamp - files[c].data[k + 1].timestamp

\* The record range [start, stop) the opened reader holds for segment s
\* (1-based) and file c.
SegView(s, c) == self._sigs_memmap[s][files[c].chan_id]

\* The record indexes the opened reader treats as boundaries: the last record
\* of every segment but the last.
Boundaries == {SegView(s, 1).stop - 1 : s \in 1..(self._nb_segment - 1)}

\* The record indexes of the reference channel whose delta is not the
\* integer good_delta of the code.
Deviating == {k \in 0..(RefCount - 2) :
                 Delta(1, k) # (BLOCK_SIZE * MICRO) \div sampling_rate}

\* _parse_header has run and completed on a directory with channel files.
OpenedByParse == call.op = "_parse_header" /\ Opened /\ Len(files) >= 1

\* The segments of file c tile its records.
Tiles(c) ==
    /\ self._nb_segment >= 1
    /\ Len(self._sigs_memmap) = self._nb_segment
    /\ SegView(1, c).start = 0
    /\ SegView(self._nb_segment, c).stop = RefCount
    /\ \A s \in 1..self._nb_segment : SegView(s, c).start < SegView(s, c).stop
    /\ \A s \in 1..(self._nb_segment - 1) :
          SegView(s, c).stop = SegView(s + 1, c).start

RECURSIVE SeqSum(_)
SeqSum(q) == IF q = <<>> THEN 0 ELSE Head(q) + SeqSum(Tail(q))

\* a < b for two times of the reader, compared exactly:
\* a.us/1e6 + a.blocks*BLOCK_SIZE/rate < b.us/1e6 + b.blocks*BLOCK_SIZE/rate.
TimeLess(a, b) ==
    a.us - b.us <= (((b.blocks - a.blocks) * BLOCK_SIZE * MICRO) - 1) \div sampling_rate

\* C1, as stated: record k of the reference channel is a boundary exactly
\* when its delta differs from the exact quotient 512 * 10^6 / sample_rate.
C1_AsStated ==
    OpenedByParse =>
        \A k \in 0..(RefCount - 2) :
            (k \in Boundaries) <=> (Delta(1, k) * sampling_rate # BLOCK_SIZE * MICRO)

\* C1, amended: with expected_delta the integer part of 512 * 10^6 /
\* sample_rate, record k is a boundary exactly when its delta differs from
\* expected_delta, the segments are 1 + the number of deviating deltas, they
\* follow each other from record 0 to record N, and the timestamps
\* [0,16000,32000,48500,64500] at 32000 Hz give [0,3) and [3,5).
C1_GapDetection ==
    OpenedByParse =>
        /\ Boundaries = Deviating
        /\ self._nb_segment = 1 + Cardinality(Deviating)
        /\ Tiles(1)
        /\ ([k \in 1..RefCount |-> RefData[k].timestamp] = ScenarioTimestamps
               /\ sampling_rate = 32000)
            => [s \in 1..self._nb_segment |-> <<SegView(s, 1).start, SegView(s, 1).stop>>]
                 = << <<0, 3>>, <<3, 5>> >>

\* C1 witness: an open at 30000 Hz (512 * 10^6 / 30000 is not an integer) of
\* a reference channel with a regular delta and a deviating one.
C1_Witness ==
    /\ OpenedByParse
    /\ sampling_rate = 30000
    /\ Deviating # {}
    /\ Deviating # 0..(RefCount - 2)

\* C3: after a successful open with at least one channel the record ranges
\* of the segments tile the records of the reference channel (and of every
\* other channel), each range is non-empty, and the stored sample lengths
\* add up to N * 512.
C3_SegmentsTile ==
    (Opened /\ Len(files) >= 1) =>
        /\ \A c \in 1..Len(files) : Tiles(c)
        /\ Len(self._sigs_length) = self._nb_segment
        /\ \A s \in 1..self._nb_segment :
              self._sigs_length[s] = (SegView(s, 1).stop - SegView(s, 1).start) * BLOCK_SIZE
        /\ SeqSum(self._sigs_length) = RefCount * BLOCK_SIZE
        /\ self.header.nb_segment = <<self._nb_segment>>

\* C3 witness: an opened directory of two channels with several segments.
C3_Witness ==
    /\ Opened
    /\ Len(files) = 2
    /\ self._nb_segment >= 2
    /\ RefCount >= 3

\* The records at which read_nsc_files compares a channel with the
\* reference: the first and the last record of every segment of the reference.
EndRecords == {0, RefCount - 1} \cup Deviating \cup {k + 1 : k \in Deviating}

\* File c has the record count of the reference and its timestamp at every
\* end record.
AgreesAtEnds(c) ==
    /\ Len(files[c].data) = RefCount
    /\ \A i \in EndRecords : files[c].data[i + 1].timestamp = RefData[i + 1].timestamp

AssertionErrors ==
    {"AssertionError: NSC files do not have the same data length",
     "AssertionError: NSC files do not have the same gaps"}

C7_CachedGaps ==
    [][ReadNscFilesCached => (exc' = "none" /\ self' = self)]_vars

\* C7 witness: read_nsc_files has run with cached gap indexes on a reader of
\* two channels and several segments.
C7_Witness ==
    /\ call.op = "read_nsc_files"
    /\ exc = "none"
    /\ Len(files) = 2
    /\ self._nb_segment >= 2

\* The delta of the reference channel over the boundary after segment s.
BoundaryDelta(s) == Delta(1, SegView(s, 1).stop - 1)

\* C10, as stated: every segment starts before it stops and stops no later
\* than the next segment starts.
C10_AsStated ==
    (Opened /\ Len(files) >= 1) =>
        /\ \A s \in 1..self._nb_segment :
              TimeLess(self.global_t_start[s], self.global_t_stop[s])
        /\ \A s \in 1..(self._nb_segment - 1) :
              ~TimeLess(self.global_t_start[s + 1], self.global_t_stop[s])

\* C10, amended: every segment starts before it stops, and a segment stops
\* no later than the next one starts exactly when the delta over their
\* boundary is larger than the expected delta; over a smaller delta the two
\* segments overlap in time.
C10_Timeline ==
    (Opened /\ Len(files) >= 1) =>
        /\ Len(self.global_t_start) = self._nb_segment
        /\ Len(self.global_t_stop) = self._nb_segment
        /\ \A s \in 1..self._nb_segment :
              /\ self.global_t_start[s].us = RefData[SegView(s, 1).start + 1].timestamp
              /\ TimeLess(self.global_t_start[s], self.global_t_stop[s])
        /\ \A s \in 1..(self._nb_segment - 1) :
              (~TimeLess(self.global_t_start[s + 1], self.global_t_stop[s]))
                  <=> (BoundaryDelta(s) > (BLOCK_SIZE * MICRO) \div sampling_rate)

\* C10 witness: an opened reader with a boundary over a smaller delta and a
\* boundary over a larger one.
C10_Witness ==
    /\ Opened
    /\ Len(files) >= 1
    /\ \E s \in 1..(self._nb_segment - 1) :
          BoundaryDelta(s) < (BLOCK_SIZE * MICRO) \div sampling_rate
    /\ \E s \in 1..(self._nb_segment - 1) :
          BoundaryDelta(s) > (BLOCK_SIZE * MICRO) \div sampling_rate

\* The sample range of the last chunk read, with the defaults applied.
ReqStart == IF call.i_start = None THEN 0 ELSE call.i_start[1]

ReqLength == (SegView(call.seg_index + 1, 1).stop
                 - SegView(call.seg_index + 1, 1).start) * BLOCK_SIZE

ReqStop == IF call.i_stop = None THEN ReqLength ELSE call.i_stop[1]

ValidRange == 0 <= ReqStart /\ ReqStart <= ReqStop /\ ReqStop <= ReqLength

ChunkRead == call.op = "_get_analogsignal_chunk"

\* Sample number n (0-based) of the block payloads of file c in segment s.
SegmentSample(s, c, n) ==
    files[c].data[SegView(s, c).start + (n \div BLOCK_SIZE) + 1].samples
        + (n % BLOCK_SIZE)

\* C2: a chunk read of a valid range returns i_stop - i_start rows and one
\* column per requested channel, in the caller's order; row j of the column
\* of a channel is sample i_start + j of its block payloads in the segment.
C2_ChunkRead ==
    (ChunkRead /\ ValidRange) =>
        /\ exc = "none"
        /\ ret # None
        /\ ret[1].shape = <<ReqStop - ReqStart, Len(call.channel_indexes)>>
        /\ Len(ret[1].columns) = Len(call.channel_indexes)
        /\ \A k \in 1..Len(call.channel_indexes) :
              /\ Len(ret[1].columns[k]) = ReqStop - ReqStart
              /\ \A j \in 0..(ReqStop - ReqStart - 1) :
                    ret[1].columns[k][j + 1] =
                        SegmentSample(call.seg_index + 1,
                                      call.channel_indexes[k] + 1, ReqStart + j)

\* C2 witness: a read of the whole of a segment of several records, the two
\* channels asked for in the reverse of the listing order.
C2_Witness ==
    /\ ChunkRead
    /\ call.i_start = None
    /\ call.i_stop = None
    /\ call.channel_indexes = <<1, 0>>
    /\ ReqLength >= 2 * BLOCK_SIZE
    /\ exc = "none"

\* C6: a chunk read of a range outside 0 <= i_start <= i_stop <= length of
\* the segment raises and returns no buffer.
C6_RangeChecked ==
    (ChunkRead /\ ~ValidRange) => (exc # "none" /\ ret = None)

\* C8: the open of a directory without a channel file completes, with one
\* segment.
C8_EmptyDirectory ==
    (call.op = "_parse_header" /\ Len(files) = 0) =>
        (exc = "none" /\ Opened /\ self.header.nb_segment = <<1>>)

====
